---------------------------- MODULE Spec2Model ----------------------------
(***************************************************************************)
(* Peripheral Heart Rate over LE Coded PHY sample                          *)
(* (samples/bluetooth/peripheral_hr_coded/src/main.c).                     *)
(*                                                                         *)
(* The sample's own state (static variables, the two work items, main's    *)
(* position) and the part of the Bluetooth host / kernel state it drives   *)
(* (advertising sets, connections, the system work queue, the battery      *)
(* level kept by BAS, the LEDs) are the variables.  Every handler of the   *)
(* sample is one action.  Results of calls into the stack are inputs drawn *)
(* from small sets.                                                        *)
(***************************************************************************)
EXTENDS Integers, Sequences, FiniteSets

VARIABLES
    main_pc,        \* main(): "start", "loop" (the for(;;) at 314) or "returned"
    led_status,     \* main()'s local uint32_t led_status
    leds,           \* board LEDs: RUN_STATUS_LED, CON_STATUS_LED -> on/off
    adv_conn,       \* static struct bt_le_ext_adv *adv_conn (the set it points to)
    adv_large,      \* static struct bt_le_ext_adv *adv_large
    ad_large,       \* static struct bt_data ad_large[FULL_ENTRY_COUNT + 1]
    adv_mfg_full,   \* static uint8_t adv_mfg_full[6][254]
    adv_mfg_last,   \* static uint8_t adv_mfg_last[LAST_ENTRY_DATA_LEN]
    active,         \* host: the advertising sets that are currently enabled
    conns,          \* host: number of established connections
    disconnects,    \* environment: disconnect events delivered so far
    workq,          \* kernel: system work queue, FIFO of pending work items
    notify_timer,   \* kernel: notify_work is delayed, its timeout is running
    heartrate,      \* hrs_notify()'s static uint8_t heartrate
    battery_level,  \* BAS: the level bt_bas_get_battery_level() returns
    assert_failed,  \* __ASSERT_NO_MSG(battery_level > 0) has failed
    ctx,            \* the handler invocation that ran last, with its arguments
    calls           \* the calls that invocation made, in order

vars == <<main_pc, led_status, leds, adv_conn, adv_large, ad_large,
          adv_mfg_full, adv_mfg_last, active, conns, disconnects, workq,
          notify_timer, heartrate, battery_level, assert_failed, ctx, calls>>

(***************************************************************************)
(* Bounds of the model.                                                    *)
(***************************************************************************)
\* iterations of main's blink loop that are followed
MaxBlinks == 1
\* disconnect events the environment delivers
MaxDisconnects == 1

(***************************************************************************)
(* Constants of the program.                                               *)
(***************************************************************************)
RUN_STATUS_LED == "DK_LED1"
CON_STATUS_LED == "DK_LED2"
RUN_LED_BLINK_INTERVAL == 1000
NOTIFY_INTERVAL == 1000

ADV_TARGET_TOTAL_LEN == 1650
MFG_AD_TYPE == "BT_DATA_MANUFACTURER_DATA"
MFG_DATA_BYTES_PER_FULL_ENTRY == 254
FULL_ENTRY_TOTAL_BYTES == 1 + 1 + MFG_DATA_BYTES_PER_FULL_ENTRY
FULL_ENTRY_COUNT == 6
LAST_ENTRY_TOTAL_BYTES ==
    ADV_TARGET_TOTAL_LEN - (FULL_ENTRY_COUNT * FULL_ENTRY_TOTAL_BYTES)
LAST_ENTRY_DATA_LEN == LAST_ENTRY_TOTAL_BYTES - 2
MFG_COMPANY_ID_LSB == 89
MFG_COMPANY_ID_MSB == 0

\* CONFIG_BT_DEVICE_NAME is set by the build configuration; any name does.
DEVICE_NAME == <<"N", "o", "r", "d", "i", "c">>
DEVICE_NAME_LEN == Len(DEVICE_NAME)

(***************************************************************************)
(* Inputs: what the stack may answer and what the peer may report.         *)
(***************************************************************************)
\* int results of stack calls: 0 or a negative errno
Results == {0, -5}
\* uint8_t conn_err of the connected callback: 0 or an HCI error
ConnErrs == {0, 62}
\* uint8_t reason of the disconnected callback
Reasons == {8, 19}

Call(fn, obj, val, ret) == [fn |-> fn, obj |-> obj, val |-> val, ret |-> ret]
Invocation(fn, args) == [fn |-> fn, args |-> args]

\* the calls of a handler other than its log lines
StackCalls(cs) == SelectSeq(cs, LAMBDA c : c.fn # "printk")
CallsOf(cs, fn) == SelectSeq(cs, LAMBDA c : c.fn = fn)

NULL == [created |-> FALSE, options |-> {}, interval |-> "", ad |-> <<>>]
NoData == [type |-> "", data_len |-> 0, buf |-> "", idx |-> 0]


(***************************************************************************)
(* build_large_adv_payload(): the buffers and ad_large[] after the call.   *)
(* Arrays are indexed from 0 as in the source.                             *)
(***************************************************************************)
\* a builder that forgets the length and type bytes of the last entry
build_large_adv_payload_last_total ==
    [full |-> [i \in 0..(FULL_ENTRY_COUNT - 1) |->
                  [j \in 0..(MFG_DATA_BYTES_PER_FULL_ENTRY - 1) |->
                      IF j = 0 THEN MFG_COMPANY_ID_LSB
                      ELSE IF j = 1 THEN MFG_COMPANY_ID_MSB
                      ELSE (i + 1) % 256]],
     last |-> [j \in 0..(LAST_ENTRY_DATA_LEN - 1) |->
                  IF j = 0 THEN MFG_COMPANY_ID_LSB
                  ELSE IF j = 1 THEN MFG_COMPANY_ID_MSB
                  ELSE 238],
     ad   |-> [i \in 0..FULL_ENTRY_COUNT |->
                  IF i < FULL_ENTRY_COUNT
                  THEN [type |-> MFG_AD_TYPE,
                        data_len |-> MFG_DATA_BYTES_PER_FULL_ENTRY,
                        buf |-> "adv_mfg_full", idx |-> i]
                  ELSE [type |-> MFG_AD_TYPE,
                        data_len |-> LAST_ENTRY_TOTAL_BYTES,
                        buf |-> "adv_mfg_last", idx |-> 0]]]

build_large_adv_payload ==
    [full |-> [i \in 0..(FULL_ENTRY_COUNT - 1) |->
                  [j \in 0..(MFG_DATA_BYTES_PER_FULL_ENTRY - 1) |->
                      IF j = 0 THEN MFG_COMPANY_ID_LSB
                      ELSE IF j = 1 THEN MFG_COMPANY_ID_MSB
                      ELSE (i + 1) % 256]],
     last |-> [j \in 0..(LAST_ENTRY_DATA_LEN - 1) |->
                  IF j = 0 THEN MFG_COMPANY_ID_LSB
                  ELSE IF j = 1 THEN MFG_COMPANY_ID_MSB
                  ELSE 238],
     ad   |-> [i \in 0..FULL_ENTRY_COUNT |->
                  IF i < FULL_ENTRY_COUNT
                  THEN [type |-> MFG_AD_TYPE,
                        data_len |-> MFG_DATA_BYTES_PER_FULL_ENTRY,
                        buf |-> "adv_mfg_full", idx |-> i]
                  ELSE [type |-> MFG_AD_TYPE,
                        data_len |-> LAST_ENTRY_DATA_LEN,
                        buf |-> "adv_mfg_last", idx |-> 0]]]

\* static const struct bt_data ad_conn[]
ad_conn ==
    [i \in 0..2 |->
        IF i = 0 THEN [type |-> "BT_DATA_FLAGS", data_len |-> 1,
                       buf |-> "ad_conn", idx |-> 0]
        ELSE IF i = 1 THEN [type |-> "BT_DATA_UUID16_ALL", data_len |-> 6,
                            buf |-> "ad_conn", idx |-> 1]
        ELSE [type |-> "BT_DATA_NAME_COMPLETE", data_len |-> DEVICE_NAME_LEN,
              buf |-> "ad_conn", idx |-> 2]]

ARRAY_SIZE(a) == Cardinality(DOMAIN a)

\* the bytes an AD entry points to
EntryData(e, full, last) ==
    IF e.buf = "adv_mfg_full" THEN full[e.idx]
    ELSE IF e.buf = "adv_mfg_last" THEN last
    ELSE <<>>

RECURSIVE SumTotal(_, _)
\* Advertising_Data_Length of entries 0..n-1 of ad: 1 + 1 + data_len each
SumTotal(ad, n) ==
    IF n = 0 THEN 0 ELSE SumTotal(ad, n - 1) + 2 + ad[n - 1].data_len

(***************************************************************************)
(* Kernel work queue, as the sample uses it.                               *)
(***************************************************************************)
InQueue(q, w) == \E i \in 1..Len(q) : q[i] = w

\* k_work_submit(): queues the item unless it is already pending
k_work_submit(q, w) == IF InQueue(q, w) THEN q ELSE Append(q, w)

(***************************************************************************)
(* The simulated sensor values.                                            *)
(***************************************************************************)
\* a heart rate that wraps one invocation late (heartrate > 160)
hrs_notify_late_wrap(h) ==
    LET h1 == (h + 1) % 256
    IN  IF h1 > 160 THEN 100 ELSE h1

\* hrs_notify(): the new value of the static heartrate (uint8_t)
hrs_notify(h) ==
    LET h1 == (h + 1) % 256
    IN  IF h1 = 160 THEN 100 ELSE h1

\* bt_bas_set_battery_level(): BAS refuses a level above 100
bt_bas_set_battery_level(cur, level) == IF level > 100 THEN cur ELSE level

\* a battery level that is decremented without the wrap to 100
bas_notify_no_wrap(level) == (level + 255) % 256

\* bas_notify(): the level passed to bt_bas_set_battery_level (uint8_t)
bas_notify(level) ==
    LET l1 == (level + 255) % 256
    IN  IF l1 = 0 THEN 100 ELSE l1

(***************************************************************************)
(* create_advertising_coded(): r1..r4 are the results of its four stack    *)
(* calls, in order.  The value is what the function leaves behind: its     *)
(* return value, the two handles, the payload statics and the calls made.  *)
(***************************************************************************)
param_conn ==
    [options |-> {"BT_LE_ADV_OPT_CONN", "BT_LE_ADV_OPT_EXT_ADV",
                  "BT_LE_ADV_OPT_CODED", "BT_LE_ADV_OPT_REQUIRE_S8_CODING"},
     interval |-> "BT_GAP_ADV_FAST_INT_2"]

param_large ==
    [options |-> {"BT_LE_ADV_OPT_EXT_ADV", "BT_LE_ADV_OPT_CODED",
                  "BT_LE_ADV_OPT_REQUIRE_S8_CODING"},
     interval |-> "BT_GAP_ADV_SLOW_INT"]

\* bt_le_ext_adv_create() returning 0: the new set, without data
NewSet(param) ==
    [created |-> TRUE, options |-> param.options,
     interval |-> param.interval, ad |-> <<>>]

\* a creation that logs a failed set_data of adv_conn and carries on
create_advertising_coded_no_return(r1, r2, r3, r4) ==
    LET c1 == Call("bt_le_ext_adv_create", "adv_conn", 0, r1)
        c2 == Call("bt_le_ext_adv_set_data", "adv_conn", ARRAY_SIZE(ad_conn), r2)
        c3 == Call("bt_le_ext_adv_create", "adv_large", 0, r3)
        c4 == Call("bt_le_ext_adv_set_data", "adv_large",
                   ARRAY_SIZE(build_large_adv_payload.ad), r4)
        set1 == [NewSet(param_conn) EXCEPT !.ad = IF r2 = 0 THEN ad_conn ELSE <<>>]
        set2 == NewSet(param_large)
        built == build_large_adv_payload
        old == [full |-> adv_mfg_full, last |-> adv_mfg_last, ad |-> ad_large]
        c12 == <<c1, Call("printk", "Created connectable adv", 0, 0), c2>> \o
               (IF r2 # 0
                THEN <<Call("printk", "Failed to set connectable adv data", r2, 0)>>
                ELSE <<>>)
    IN  IF r1 # 0 THEN
            [err |-> r1, adv_conn |-> adv_conn, adv_large |-> adv_large,
             payload |-> old,
             calls |-> <<c1, Call("printk", "Failed to create connectable advertiser", r1, 0)>>]
        ELSE IF r3 # 0 THEN
            [err |-> r3, adv_conn |-> set1, adv_large |-> adv_large, payload |-> old,
             calls |-> c12 \o <<c3, Call("printk", "Failed to create large advertiser", r3, 0)>>]
        ELSE IF r4 # 0 THEN
            [err |-> r4, adv_conn |-> set1, adv_large |-> set2, payload |-> built,
             calls |-> c12 \o <<c3, Call("printk", "Created large adv", 0, 0), c4,
                                Call("printk", "Failed to set large adv data", r4, 0)>>]
        ELSE
            [err |-> 0, adv_conn |-> set1,
             adv_large |-> [set2 EXCEPT !.ad = built.ad], payload |-> built,
             calls |-> c12 \o <<c3, Call("printk", "Created large adv", 0, 0), c4>>]

create_advertising_coded(r1, r2, r3, r4) ==
    LET c1 == Call("bt_le_ext_adv_create", "adv_conn", 0, r1)
        c2 == Call("bt_le_ext_adv_set_data", "adv_conn", ARRAY_SIZE(ad_conn), r2)
        c3 == Call("bt_le_ext_adv_create", "adv_large", 0, r3)
        c4 == Call("bt_le_ext_adv_set_data", "adv_large",
                   ARRAY_SIZE(build_large_adv_payload.ad), r4)
        set1 == NewSet(param_conn)
        set2 == NewSet(param_large)
        built == build_large_adv_payload
        old == [full |-> adv_mfg_full, last |-> adv_mfg_last, ad |-> ad_large]
    IN  IF r1 # 0 THEN
            [err |-> r1, adv_conn |-> adv_conn, adv_large |-> adv_large,
             payload |-> old,
             calls |-> <<c1, Call("printk", "Failed to create connectable advertiser", r1, 0)>>]
        ELSE IF r2 # 0 THEN
            [err |-> r2, adv_conn |-> set1, adv_large |-> adv_large,
             payload |-> old,
             calls |-> <<c1, Call("printk", "Created connectable adv", 0, 0), c2,
                         Call("printk", "Failed to set connectable adv data", r2, 0)>>]
        ELSE IF r3 # 0 THEN
            [err |-> r3, adv_conn |-> [set1 EXCEPT !.ad = ad_conn],
             adv_large |-> adv_large, payload |-> old,
             calls |-> <<c1, Call("printk", "Created connectable adv", 0, 0), c2, c3,
                         Call("printk", "Failed to create large advertiser", r3, 0)>>]
        ELSE IF r4 # 0 THEN
            [err |-> r4, adv_conn |-> [set1 EXCEPT !.ad = ad_conn],
             adv_large |-> set2, payload |-> built,
             calls |-> <<c1, Call("printk", "Created connectable adv", 0, 0), c2, c3,
                         Call("printk", "Created large adv", 0, 0), c4,
                         Call("printk", "Failed to set large adv data", r4, 0)>>]
        ELSE
            [err |-> 0, adv_conn |-> [set1 EXCEPT !.ad = ad_conn],
             adv_large |-> [set2 EXCEPT !.ad = built.ad], payload |-> built,
             calls |-> <<c1, Call("printk", "Created connectable adv", 0, 0), c2, c3,
                         Call("printk", "Created large adv", 0, 0), c4>>]

(***************************************************************************)
(* main() up to its blink loop.  r_leds and r_bt are the results of        *)
(* dk_leds_init() and bt_enable(), r1..r4 those of the four calls of       *)
(* create_advertising_coded().                                             *)
(***************************************************************************)
main(r_leds, r_bt, r1, r2, r3, r4) ==
    LET hello == Call("printk", "Starting Bluetooth Peripheral HR coded sample", 0, 0)
        l == Call("dk_leds_init", "", 0, r_leds)
        b == Call("bt_enable", "", 0, r_bt)
        cr == create_advertising_coded(r1, r2, r3, r4)
        upto == <<hello, l, b, Call("printk", "Bluetooth initialized", 0, 0)>> \o cr.calls
    IN  /\ main_pc = "start"
        /\ ctx' = Invocation("main", <<>>)
        /\ UNCHANGED <<led_status, leds, active, conns, disconnects, heartrate,
                       battery_level, assert_failed>>
        /\ IF r_leds # 0 THEN
               /\ main_pc' = "returned"
               /\ calls' = <<hello, l, Call("printk", "LEDs init failed", r_leds, 0)>>
               /\ UNCHANGED <<adv_conn, adv_large, ad_large, adv_mfg_full,
                              adv_mfg_last, workq, notify_timer>>
           ELSE IF r_bt # 0 THEN
               /\ main_pc' = "returned"
               /\ calls' = <<hello, l, b, Call("printk", "Bluetooth init failed", r_bt, 0)>>
               /\ UNCHANGED <<adv_conn, adv_large, ad_large, adv_mfg_full,
                              adv_mfg_last, workq, notify_timer>>
           ELSE
               /\ adv_conn' = cr.adv_conn
               /\ adv_large' = cr.adv_large
               /\ ad_large' = cr.payload.ad
               /\ adv_mfg_full' = cr.payload.full
               /\ adv_mfg_last' = cr.payload.last
               /\ notify_timer' = notify_timer
               /\ IF cr.err # 0 THEN
                      /\ main_pc' = "returned"
                      /\ calls' = Append(upto,
                                    Call("printk", "Advertising failed to create", cr.err, 0))
                      /\ workq' = workq
                  ELSE
                      /\ main_pc' = "loop"
                      /\ calls' = upto \o
                            <<Call("k_work_submit", "start_advertising_worker", 0, 0),
                              Call("k_work_schedule", "notify_work", 0, 0)>>
                      \* K_NO_WAIT: notify_work goes straight to the queue
                      /\ workq' = k_work_submit(
                                     k_work_submit(workq, "start_advertising_worker"),
                                     "notify_work")

\* one pass of main()'s for(;;): toggle RUN_STATUS_LED, sleep
main_loop ==
    /\ main_pc = "loop"
    /\ led_status < MaxBlinks
    \* ++led_status: a uint32_t, far from wrapping within MaxBlinks passes
    /\ led_status' = led_status + 1
    /\ leds' = [leds EXCEPT ![RUN_STATUS_LED] = (led_status' % 2 = 1)]
    /\ ctx' = Invocation("main_loop", <<>>)
    /\ calls' = <<Call("dk_set_led", RUN_STATUS_LED, led_status' % 2, 0),
                  Call("k_sleep", "", RUN_LED_BLINK_INTERVAL, 0)>>
    /\ UNCHANGED <<main_pc, adv_conn, adv_large, ad_large, adv_mfg_full,
                   adv_mfg_last, active, conns, disconnects, workq, notify_timer,
                   heartrate, battery_level, assert_failed>>

(***************************************************************************)
(* Connection callbacks.  The host delivers connected() for a peer that    *)
(* answered the connectable set; with conn_err = 0 the connection exists   *)
(* and the host has stopped that set.  info_err is the result of           *)
(* bt_conn_get_info().                                                     *)
(***************************************************************************)
\* a connected() that logs a failed connection and carries on
connected_no_return(conn_err, info_err) ==
    LET a == Call("bt_addr_le_to_str", "", 0, 0)
    IN  /\ main_pc = "loop"
        /\ "adv_conn" \in active
        /\ ctx' = Invocation("connected", <<conn_err>>)
        /\ IF conn_err # 0
           THEN UNCHANGED <<active, conns>>
           ELSE /\ active' = active \ {"adv_conn"}
                /\ conns' = conns + 1
        /\ calls' = (IF conn_err # 0
                     THEN <<a, Call("printk", "Connection failed", conn_err, 0)>>
                     ELSE <<a>>) \o
                    <<Call("bt_conn_get_info", "", 0, info_err),
                      IF info_err # 0
                      THEN Call("printk", "Failed to get connection info", info_err, 0)
                      ELSE Call("printk", "Connected", 0, 0),
                      Call("dk_set_led_on", CON_STATUS_LED, 0, 0)>>
        /\ leds' = [leds EXCEPT ![CON_STATUS_LED] = TRUE]
        /\ UNCHANGED <<main_pc, led_status, adv_conn, adv_large, ad_large,
                       adv_mfg_full, adv_mfg_last, disconnects, workq, notify_timer,
                       heartrate, battery_level, assert_failed>>

\* a connected() that lights the LED only when the PHY query succeeded
connected_led_in_else(conn_err, info_err) ==
    LET a == Call("bt_addr_le_to_str", "", 0, 0)
    IN  /\ main_pc = "loop"
        /\ "adv_conn" \in active
        /\ ctx' = Invocation("connected", <<conn_err>>)
        /\ IF conn_err # 0 THEN
               /\ calls' = <<a, Call("printk", "Connection failed", conn_err, 0)>>
               /\ UNCHANGED <<leds, active, conns>>
           ELSE
               /\ active' = active \ {"adv_conn"}
               /\ conns' = conns + 1
               /\ IF info_err # 0 THEN
                      /\ calls' = <<a, Call("bt_conn_get_info", "", 0, info_err),
                                    Call("printk", "Failed to get connection info", info_err, 0)>>
                      /\ leds' = leds
                  ELSE
                      /\ calls' = <<a, Call("bt_conn_get_info", "", 0, info_err),
                                    Call("printk", "Connected", 0, 0),
                                    Call("dk_set_led_on", CON_STATUS_LED, 0, 0)>>
                      /\ leds' = [leds EXCEPT ![CON_STATUS_LED] = TRUE]
        /\ UNCHANGED <<main_pc, led_status, adv_conn, adv_large, ad_large,
                       adv_mfg_full, adv_mfg_last, disconnects, workq, notify_timer,
                       heartrate, battery_level, assert_failed>>

connected(conn_err, info_err) ==
    LET a == Call("bt_addr_le_to_str", "", 0, 0)
    IN  /\ main_pc = "loop"
        /\ "adv_conn" \in active
        /\ ctx' = Invocation("connected", <<conn_err>>)
        /\ IF conn_err # 0 THEN
               /\ calls' = <<a, Call("printk", "Connection failed", conn_err, 0)>>
               /\ UNCHANGED <<leds, active, conns>>
           ELSE
               /\ active' = active \ {"adv_conn"}
               /\ conns' = conns + 1
               /\ calls' = <<a, Call("bt_conn_get_info", "", 0, info_err),
                             IF info_err # 0
                             THEN Call("printk", "Failed to get connection info", info_err, 0)
                             ELSE Call("printk", "Connected", 0, 0),
                             Call("dk_set_led_on", CON_STATUS_LED, 0, 0)>>
               /\ leds' = [leds EXCEPT ![CON_STATUS_LED] = TRUE]
        /\ UNCHANGED <<main_pc, led_status, adv_conn, adv_large, ad_large,
                       adv_mfg_full, adv_mfg_last, disconnects, workq, notify_timer,
                       heartrate, battery_level, assert_failed>>

\* a disconnected() that restarts advertising inline, in the callback
disconnected_inline_start(reason) ==
    /\ conns > 0
    /\ disconnects < MaxDisconnects
    /\ conns' = conns - 1
    /\ disconnects' = disconnects + 1
    /\ ctx' = Invocation("disconnected", <<reason>>)
    /\ calls' = <<Call("printk", "Disconnected", reason, 0),
                  Call("bt_le_ext_adv_start", "adv_conn", 0, 0),
                  Call("bt_le_ext_adv_start", "adv_large", 0, 0),
                  Call("dk_set_led_off", CON_STATUS_LED, 0, 0)>>
    /\ active' = active \cup {"adv_conn", "adv_large"}
    /\ leds' = [leds EXCEPT ![CON_STATUS_LED] = FALSE]
    /\ UNCHANGED <<main_pc, led_status, adv_conn, adv_large, ad_large,
                   adv_mfg_full, adv_mfg_last, workq, notify_timer, heartrate,
                   battery_level, assert_failed>>

\* the host delivers disconnected() for an established connection
disconnected(reason) ==
    /\ conns > 0
    /\ disconnects < MaxDisconnects
    /\ conns' = conns - 1
    /\ disconnects' = disconnects + 1
    /\ ctx' = Invocation("disconnected", <<reason>>)
    /\ calls' = <<Call("printk", "Disconnected", reason, 0),
                  Call("k_work_submit", "start_advertising_worker", 0, 0),
                  Call("dk_set_led_off", CON_STATUS_LED, 0, 0)>>
    /\ workq' = k_work_submit(workq, "start_advertising_worker")
    /\ leds' = [leds EXCEPT ![CON_STATUS_LED] = FALSE]
    /\ UNCHANGED <<main_pc, led_status, adv_conn, adv_large, ad_large,
                   adv_mfg_full, adv_mfg_last, active, notify_timer, heartrate,
                   battery_level, assert_failed>>

(***************************************************************************)
(* Work handlers: the system work queue runs the item at its head.         *)
(***************************************************************************)
\* a worker whose second call starts adv_conn again instead of adv_large
start_advertising_coded_conn_twice(r1, r2) ==
    LET s1 == Call("bt_le_ext_adv_start", "adv_conn", 0, r1)
        s2 == Call("bt_le_ext_adv_start", "adv_conn", 0, r2)
    IN  /\ workq # <<>>
        /\ Head(workq) = "start_advertising_worker"
        /\ workq' = Tail(workq)
        /\ ctx' = Invocation("start_advertising_coded", <<>>)
        /\ IF r1 # 0 THEN
               /\ calls' = <<s1, Call("printk", "Failed to start connectable advertiser", r1, 0)>>
               /\ active' = active
           ELSE IF r2 # 0 THEN
               /\ calls' = <<s1, Call("printk", "Connectable advertiser started", 0, 0), s2,
                             Call("printk", "Failed to start large advertiser", r2, 0)>>
               /\ active' = active \cup {"adv_conn"}
           ELSE
               /\ calls' = <<s1, Call("printk", "Connectable advertiser started", 0, 0), s2,
                             Call("printk", "Large advertiser started", 0, 0)>>
               /\ active' = active \cup {"adv_conn"}
        /\ UNCHANGED <<main_pc, led_status, leds, adv_conn, adv_large, ad_large,
                       adv_mfg_full, adv_mfg_last, conns, disconnects, notify_timer,
                       heartrate, battery_level, assert_failed>>

\* a worker that logs a failed start of adv_conn and carries on to adv_large
start_advertising_coded_no_return(r1, r2) ==
    LET s1 == Call("bt_le_ext_adv_start", "adv_conn", 0, r1)
        s2 == Call("bt_le_ext_adv_start", "adv_large", 0, r2)
    IN  /\ workq # <<>>
        /\ Head(workq) = "start_advertising_worker"
        /\ workq' = Tail(workq)
        /\ ctx' = Invocation("start_advertising_coded", <<>>)
        /\ calls' = <<s1,
                      IF r1 # 0
                      THEN Call("printk", "Failed to start connectable advertiser", r1, 0)
                      ELSE Call("printk", "Connectable advertiser started", 0, 0),
                      s2,
                      IF r2 # 0
                      THEN Call("printk", "Failed to start large advertiser", r2, 0)
                      ELSE Call("printk", "Large advertiser started", 0, 0)>>
        /\ active' = active \cup (IF r1 = 0 THEN {"adv_conn"} ELSE {})
                            \cup (IF r2 = 0 THEN {"adv_large"} ELSE {})
        /\ UNCHANGED <<main_pc, led_status, leds, adv_conn, adv_large, ad_large,
                       adv_mfg_full, adv_mfg_last, conns, disconnects, notify_timer,
                       heartrate, battery_level, assert_failed>>

\* r1, r2: the results of bt_le_ext_adv_start() for adv_conn and adv_large
start_advertising_coded(r1, r2) ==
    LET s1 == Call("bt_le_ext_adv_start", "adv_conn", 0, r1)
        s2 == Call("bt_le_ext_adv_start", "adv_large", 0, r2)
    IN  /\ workq # <<>>
        /\ Head(workq) = "start_advertising_worker"
        /\ workq' = Tail(workq)
        /\ ctx' = Invocation("start_advertising_coded", <<>>)
        /\ IF r1 # 0 THEN
               /\ calls' = <<s1, Call("printk", "Failed to start connectable advertiser", r1, 0)>>
               /\ active' = active
           ELSE IF r2 # 0 THEN
               /\ calls' = <<s1, Call("printk", "Connectable advertiser started", 0, 0), s2,
                             Call("printk", "Failed to start large advertiser", r2, 0)>>
               /\ active' = active \cup {"adv_conn"}
           ELSE
               /\ calls' = <<s1, Call("printk", "Connectable advertiser started", 0, 0), s2,
                             Call("printk", "Large advertiser started", 0, 0)>>
               /\ active' = active \cup {"adv_conn", "adv_large"}
        /\ UNCHANGED <<main_pc, led_status, leds, adv_conn, adv_large, ad_large,
                       adv_mfg_full, adv_mfg_last, conns, disconnects, notify_timer,
                       heartrate, battery_level, assert_failed>>

\* a handler that forgets to reschedule itself
notify_work_handler_once ==
    LET hr == hrs_notify(heartrate)
        level == battery_level
        new == bas_notify(level)
    IN  /\ workq # <<>>
        /\ Head(workq) = "notify_work"
        /\ workq' = Tail(workq)
        /\ ctx' = Invocation("notify_work_handler", <<>>)
        /\ heartrate' = hr
        /\ assert_failed' = (assert_failed \/ ~(level > 0))
        /\ battery_level' = bt_bas_set_battery_level(battery_level, new)
        /\ notify_timer' = notify_timer
        /\ calls' = <<Call("bt_hrs_notify", "", hr, 0),
                      Call("bt_bas_get_battery_level", "", 0, level),
                      Call("bt_bas_set_battery_level", "", new, 0)>>
        /\ UNCHANGED <<main_pc, led_status, leds, adv_conn, adv_large, ad_large,
                       adv_mfg_full, adv_mfg_last, active, conns, disconnects>>

notify_work_handler ==
    LET hr == hrs_notify(heartrate)
        level == battery_level
        new == bas_notify(level)
    IN  /\ workq # <<>>
        /\ Head(workq) = "notify_work"
        /\ workq' = Tail(workq)
        /\ ctx' = Invocation("notify_work_handler", <<>>)
        /\ heartrate' = hr
        /\ assert_failed' = (assert_failed \/ ~(level > 0))
        /\ battery_level' = bt_bas_set_battery_level(battery_level, new)
        \* k_work_reschedule(): the item is delayed by NOTIFY_INTERVAL
        /\ notify_timer' = TRUE
        /\ calls' = <<Call("bt_hrs_notify", "", hr, 0),
                      Call("bt_bas_get_battery_level", "", 0, level),
                      Call("bt_bas_set_battery_level", "", new, 0),
                      Call("k_work_reschedule", "notify_work", NOTIFY_INTERVAL, 0)>>
        /\ UNCHANGED <<main_pc, led_status, leds, adv_conn, adv_large, ad_large,
                       adv_mfg_full, adv_mfg_last, active, conns, disconnects>>

\* kernel: the delay of notify_work ends, the item is queued
notify_timeout ==
    /\ notify_timer
    /\ notify_timer' = FALSE
    /\ workq' = k_work_submit(workq, "notify_work")
    /\ ctx' = Invocation("notify_work timeout", <<>>)
    /\ calls' = <<>>
    /\ UNCHANGED <<main_pc, led_status, leds, adv_conn, adv_large, ad_large,
                   adv_mfg_full, adv_mfg_last, active, conns, disconnects,
                   heartrate, battery_level, assert_failed>>

(***************************************************************************)
(* The program.                                                            *)
(***************************************************************************)
Init ==
    /\ main_pc = "start"
    /\ led_status = 0
    /\ leds = [l \in {RUN_STATUS_LED, CON_STATUS_LED} |-> FALSE]
    /\ adv_conn = NULL
    /\ adv_large = NULL
    /\ ad_large = [i \in 0..FULL_ENTRY_COUNT |-> NoData]
    /\ adv_mfg_full = [i \in 0..(FULL_ENTRY_COUNT - 1) |->
                          [j \in 0..(MFG_DATA_BYTES_PER_FULL_ENTRY - 1) |-> 0]]
    /\ adv_mfg_last = [j \in 0..(LAST_ENTRY_DATA_LEN - 1) |-> 0]
    /\ active = {}
    /\ conns = 0
    /\ disconnects = 0
    /\ workq = <<>>
    /\ notify_timer = FALSE
    /\ heartrate = 100
    /\ battery_level = 100
    /\ assert_failed = FALSE
    /\ ctx = Invocation("reset", <<>>)
    /\ calls = <<>>

Startup ==
    \E r_leds \in Results, r_bt \in Results, r1 \in Results, r2 \in Results,
       r3 \in Results, r4 \in Results : main(r_leds, r_bt, r1, r2, r3, r4)

Connected == \E conn_err \in ConnErrs, info_err \in Results : connected(conn_err, info_err)

Disconnected == \E reason \in Reasons : disconnected(reason)

StartAdvertising == \E r1 \in Results, r2 \in Results : start_advertising_coded(r1, r2)

Next ==
    \/ Startup
    \/ main_loop
    \/ Connected
    \/ Disconnected
    \/ StartAdvertising
    \/ notify_work_handler
    \/ notify_timeout

Spec == Init /\ [][Next]_vars

\* the work queue thread runs whatever is pending, and timeouts expire
FairSpec ==
    /\ Spec
    /\ WF_vars(StartAdvertising)
    /\ WF_vars(notify_work_handler)
    /\ WF_vars(notify_timeout)

(***************************************************************************)
(* Properties.                                                             *)
(***************************************************************************)
StartCalls == CallsOf(calls, "bt_le_ext_adv_start")
CreateCalls ==
    SelectSeq(calls, LAMBDA c : c.fn \in {"bt_le_ext_adv_create", "bt_le_ext_adv_set_data"})
Failed(cs) == \E i \in 1..Len(cs) : cs[i].ret # 0
NotifyPending == notify_timer \/ InQueue(workq, "notify_work")
BothSets == {"adv_conn", "adv_large"}

\* the two sets as create_advertising_coded() configures them
SetsCarryData ==
    /\ adv_conn.created /\ adv_large.created
    /\ "BT_LE_ADV_OPT_CONN" \in adv_conn.options
    /\ "BT_LE_ADV_OPT_CONN" \notin adv_large.options
    /\ ARRAY_SIZE(adv_conn.ad) = 3
    /\ adv_conn.ad[0].type = "BT_DATA_FLAGS"
    /\ adv_conn.ad[1].type = "BT_DATA_UUID16_ALL"
    /\ adv_conn.ad[2].type = "BT_DATA_NAME_COMPLETE"
    /\ ARRAY_SIZE(adv_large.ad) = 7
    /\ adv_large.ad = ad_large
    /\ SumTotal(adv_large.ad, ARRAY_SIZE(adv_large.ad)) = 1650

\* start_advertising_coded() ran last and both of its start calls returned 0
BothStarted ==
    /\ ctx.fn = "start_advertising_coded"
    /\ Len(StartCalls) = 2
    /\ ~Failed(StartCalls)

\* C1, as stated: once main's startup has succeeded, exactly the two sets are
\* active, carrying 3 and 7 entries (1650 bytes).  Read in its favour: the
\* submitted start_advertising_worker has run, and no connection has been made
\* that would have stopped adv_conn.
C1_AsStated ==
    (/\ main_pc = "loop"
     /\ ~InQueue(workq, "start_advertising_worker")
     /\ conns = 0 /\ disconnects = 0)
        => (active = BothSets /\ SetsCarryData)

\* C1, amended: after a successful startup, whenever a run of
\* start_advertising_coded() has made both start calls and both returned 0,
\* exactly the two sets are active: adv_conn, connectable, with the 3 entries
\* of ad_conn, and adv_large, not connectable, with the 7 entries of ad_large
\* totalling 1650 bytes.
C1_ActiveAfterStart ==
    BothStarted => (main_pc = "loop" /\ active = BothSets
                    /\ Cardinality(active) = 2 /\ SetsCarryData)

C1_Witness ==
    BothStarted /\ disconnects = 0 /\ active = BothSets

\* C2: when one of the four stack calls of create_advertising_coded() fails,
\* it is the last create/set-data call made, no call is made twice, main
\* returns without submitting start_advertising_worker or scheduling
\* notify_work, and from then on nothing runs and no set is ever active.
C2_CreateFailureAborts ==
    /\ (ctx.fn = "main" /\ Failed(CreateCalls)) => main_pc = "returned"
    /\ main_pc = "returned" =>
          /\ ctx.fn = "main"
          /\ \A i \in 1..Len(CreateCalls) :
                /\ CreateCalls[i].ret # 0 => i = Len(CreateCalls)
                /\ \A j \in 1..Len(CreateCalls) :
                      (CreateCalls[i].fn = CreateCalls[j].fn
                       /\ CreateCalls[i].obj = CreateCalls[j].obj) => i = j
          /\ CallsOf(calls, "k_work_submit") = <<>>
          /\ CallsOf(calls, "k_work_schedule") = <<>>
          /\ StartCalls = <<>>
          /\ workq = <<>>
          /\ ~notify_timer
          /\ active = {}

\* the third call (creating adv_large) failed: the first two were made
C2_Witness ==
    /\ main_pc = "returned"
    /\ Len(CreateCalls) = 3
    /\ CreateCalls[3].ret # 0
    /\ adv_conn.created /\ ~adv_large.created

\* the first run of start_advertising_coded(): no disconnect has happened
FirstStartRun == ctx.fn = "start_advertising_coded" /\ disconnects = 0

NonAdvertisingIdle ==
    /\ active = {}
    /\ ~NotifyPending
    /\ main_pc # "loop"

C4_RestartIsDeferred ==
    /\ [](/\ ctx.fn = "disconnected" =>
                /\ Len(CallsOf(calls, "k_work_submit")) = 1
                /\ CallsOf(calls, "k_work_submit")[1].obj = "start_advertising_worker"
                /\ StartCalls = <<>>
                /\ InQueue(workq, "start_advertising_worker")
          /\ StartCalls # <<>> => ctx.fn = "start_advertising_coded"
          /\ CallsOf(calls, "k_work_submit") # <<>> => ctx.fn \in {"main", "disconnected"})
    /\ [][/\ (InQueue(workq', "start_advertising_worker")
              /\ ~InQueue(workq, "start_advertising_worker"))
                 => ctx'.fn \in {"main", "disconnected"}
          /\ (active' \ active) # {} =>
                 (/\ ctx'.fn = "start_advertising_coded"
                  /\ workq # <<>>
                  /\ Head(workq) = "start_advertising_worker"
                  /\ workq' = Tail(workq))
          /\ ctx'.fn = "disconnected" => active' = active]_vars

C4_Witness ==
    /\ ctx = Invocation("disconnected", <<19>>)
    /\ disconnects = 1
    /\ workq = <<"notify_work", "start_advertising_worker">>

\* C5: a connected() callback with a non-zero error code only logs: it does
\* not call bt_conn_get_info(), leaves both LEDs as they were, and leaves the
\* work queue and the notify timeout untouched.
C5_FailedConnectNoEffect ==
    [][(ctx'.fn = "connected" /\ ctx'.args # <<0>>) =>
          /\ CallsOf(calls', "bt_conn_get_info") = <<>>
          /\ CallsOf(calls', "dk_set_led_on") = <<>>
          /\ Len(StackCalls(calls')) = 1
          /\ leds' = leds
          /\ workq' = workq
          /\ notify_timer' = notify_timer
          /\ conns' = conns]_vars

C5_Witness ==
    /\ ctx = Invocation("connected", <<62>>)
    /\ ~leds[CON_STATUS_LED]
    /\ disconnects = 1

\* C6: the heart rate starts at 100, stays within 100..159 and so does every
\* value passed to bt_hrs_notify(); each invocation adds 1, except that the
\* one that would reach 160 yields 100.
C6_HeartRateRange ==
    /\ [](/\ heartrate \in 100..159
          /\ ctx.fn = "notify_work_handler" =>
                /\ Len(CallsOf(calls, "bt_hrs_notify")) = 1
                /\ CallsOf(calls, "bt_hrs_notify")[1].val = heartrate
                /\ CallsOf(calls, "bt_hrs_notify")[1].val \in 100..159)
    /\ [][ctx'.fn = "notify_work_handler" =>
             heartrate' = (IF heartrate + 1 = 160 THEN 100 ELSE heartrate + 1)]_vars

\* the wrap has happened: 100 was notified after 159
C6_Witness ==
    /\ ctx.fn = "notify_work_handler"
    /\ heartrate = 100
    /\ battery_level < 100

\* C7: the battery level stays within 1..100 and so does every value passed
\* to bt_bas_set_battery_level(); each invocation of bas_notify() sets the
\* level it read minus 1, except that reading 1 sets 100; the assertion
\* battery_level > 0 never fails.
C7_BatteryRange ==
    /\ [](/\ battery_level \in 1..100
          /\ ~assert_failed
          /\ ctx.fn = "notify_work_handler" =>
                /\ Len(CallsOf(calls, "bt_bas_set_battery_level")) = 1
                /\ CallsOf(calls, "bt_bas_set_battery_level")[1].val = battery_level
                /\ CallsOf(calls, "bt_bas_set_battery_level")[1].val \in 1..100
                /\ CallsOf(calls, "bt_bas_get_battery_level")[1].ret \in 1..100)
    /\ [][ctx'.fn = "notify_work_handler" =>
             battery_level' = (IF battery_level = 1 THEN 100 ELSE battery_level - 1)]_vars

\* the wrap has happened: 100 was set after reading 1
C7_Witness ==
    /\ ctx.fn = "notify_work_handler"
    /\ battery_level = 100
    /\ CallsOf(calls, "bt_bas_get_battery_level")[1].ret = 1

\* C8: once build_large_adv_payload() has run (it follows the creation of
\* adv_large), ad_large holds 7 entries, all manufacturer specific data: as
\* many 254-byte entries as fit in 1650 bytes (6 of 256 bytes with length and
\* type) and one last entry of 112 data bytes (114 in all); every data length
\* is in 1..254, is the size of the buffer the entry points to, and the
\* entries total exactly 1650 bytes.
C8_LargePayload ==
    adv_large.created =>
        /\ ARRAY_SIZE(ad_large) = 7
        /\ \A i \in DOMAIN ad_large :
              /\ ad_large[i].type = MFG_AD_TYPE
              /\ ad_large[i].data_len > 0
              /\ ad_large[i].data_len <= 254
              /\ ARRAY_SIZE(EntryData(ad_large[i], adv_mfg_full, adv_mfg_last))
                     = ad_large[i].data_len
        /\ \A i \in 0..5 : ad_large[i].data_len = 254
        /\ ad_large[6].data_len = 112
        /\ 6 = ADV_TARGET_TOTAL_LEN \div 256
        /\ 112 + 2 = ADV_TARGET_TOTAL_LEN % 256
        /\ SumTotal(ad_large, 7) = 1650

C8_Witness ==
    /\ adv_large.created
    /\ ad_large[6].buf = "adv_mfg_last"
    /\ adv_mfg_last[111] = 238
    /\ adv_mfg_full[5][253] = 6
    /\ main_pc = "returned"

\* C9: once main has scheduled notify_work, notify_work_handler() runs again
\* and again for ever; each run makes one bt_hrs_notify() call, then one
\* battery update, then reschedules notify_work by 1000 ms, whether or not a
\* connection exists or a set is active; the work is never cancelled.
C9_NotifyForever ==
    /\ [](/\ ctx.fn = "notify_work_handler" =>
                /\ Len(calls) = 4
                /\ calls[1].fn = "bt_hrs_notify"
                /\ calls[2].fn = "bt_bas_get_battery_level"
                /\ calls[3].fn = "bt_bas_set_battery_level"
                /\ calls[4] = Call("k_work_reschedule", "notify_work", 1000, 0)
          /\ main_pc = "loop" => NotifyPending)
    \* main never leaves its loop, so "once scheduled, again and again" is:
    \* either main never gets there, or the handler runs infinitely often
    /\ ([](main_pc # "loop") \/ []<><<notify_work_handler>>_vars)
    /\ [][main_pc = "loop" => main_pc' = "loop"]_vars

\* the handler has run while connected and while no set was active
C9_Witness ==
    /\ ctx.fn = "notify_work_handler"
    /\ notify_timer
    /\ conns = 1
    /\ active = {}

\* C10: the connection LED is on exactly when a connection is established
\* (there is never more than one); every connected() with error code 0 turns
\* it on, also when bt_conn_get_info() failed, every disconnected() turns it
\* off, and no other handler changes it.
C10_ConnectionLed ==
    /\ [](/\ leds[CON_STATUS_LED] <=> conns > 0
          /\ conns <= 1
          /\ ctx = Invocation("connected", <<0>>) =>
                (leds[CON_STATUS_LED] /\ CallsOf(calls, "dk_set_led_on") # <<>>)
          /\ ctx.fn = "disconnected" => ~leds[CON_STATUS_LED])
    /\ [][leds'[CON_STATUS_LED] # leds[CON_STATUS_LED] =>
             ctx'.fn \in {"connected", "disconnected"}]_vars

\* connected with error code 0 although the PHY query failed: the LED is on
C10_Witness ==
    /\ ctx = Invocation("connected", <<0>>)
    /\ CallsOf(calls, "bt_conn_get_info")[1].ret # 0
    /\ leds[CON_STATUS_LED]
    /\ disconnects > 0

=============================================================================
